---- MODULE Spec2Model ----
(***************************************************************************)
(* Two-stage harvesting pipeline of hackerone_parser.                      *)
(*   stage 1  main.py hacktivity_search   -> primary_table (Staging Store) *)
(*   stage 2  main.py profile_info_search -> finally_table (Final Store)   *)
(* together with the operations db.py DatabaseManager offers on the two    *)
(* tables.  Tables are sequences of rows in rowid order.                   *)
(***************************************************************************)
EXTENDS Integers, Sequences, FiniteSets, TLC

(* ----------------------------- bounds --------------------------------- *)
MaxClock == 1       \* CURRENT_TIMESTAMP takes the values 0..MaxClock
MaxPage  == 2       \* nodes in one page answered by the remote API
MaxRuns1 == 2       \* invocations of hacktivity_search
MaxRuns2 == 2       \* invocations of profile_info_search
MaxOps   == 3       \* direct calls of DatabaseManager operations
MaxPrimary == 2     \* rows ever inserted into primary_table
MaxFinal == 2       \* rows ever inserted into finally_table

(* ------------------------ program constants --------------------------- *)
DEFAULT_LIMIT == 100    \* get_all_primary_records(limit = 100)

(* ------------------------------ values -------------------------------- *)
Users     == {"alice", "bob"}
Typenames == {"Disclosed"}
NULL      == "NULL"                 \* None of a text value / SQL NULL
None      == [kind |-> "None"]      \* None where a document is expected
NoneId    == -1                     \* None where an integer is returned
RAISE     == [kind |-> "raise"]     \* an exception leaves the call

\* a JSON array / Python list
List(items) == [kind |-> "list", items |-> items]

\* dict.get(key, default)
Get(d, k, default) == IF k \in DOMAIN d THEN d[k] ELSE default

\* json.dumps / json.loads: the document is stored as text and decoded on read
dumps(doc)  == [json |-> doc]
loads(text) == text.json

(* Raw activity nodes as the remote API answers them.  A node carries a     *)
(* reporter object, a null reporter, or no reporter key at all.             *)
Reporter(u) == [kind |-> "dict", username |-> u]
Nodes ==
    {[kind |-> "dict", reporter |-> Reporter(u), typename |-> t] :
        u \in Users, t \in Typenames}
    \cup {[kind |-> "dict", reporter |-> None, typename |-> t] : t \in Typenames}
    \cup {[kind |-> "dict", typename |-> t] : t \in Typenames}

RECURSIVE SeqsUpTo(_, _)
SeqsUpTo(S, n) ==
    IF n = 0 THEN {<<>>}
    ELSE LET shorter == SeqsUpTo(S, n - 1)
         IN  shorter \cup {Append(s, x) : s \in {t \in shorter : Len(t) = n - 1}, x \in S}

Pages == SeqsUpTo(Nodes, MaxPage)

(* Raw profile documents (response['data']['user']).  created_at is the     *)
(* remote profile's own timestamp; badges is a connection-style container.  *)
Timestamps == {"2020-01-01T00:00:00Z", "not-a-date"}
Counts     == {3, 5}
DisplayName(u) == IF u = "alice" THEN "Al" ELSE "Bo"
Profile(u, c, ts) ==
    [kind |-> "dict", username |-> u, name |-> DisplayName(u),
     resolved_report_count |-> c, created_at |-> ts,
     badges |-> [kind |-> "dict", edges |-> List(<<>>)],
     public_reviews |-> [kind |-> "dict", edges |-> List(<<>>)]]
\* the profiles handed to the store operations that are called directly
Profiles ==
    {Profile(u, 3, "2020-01-01T00:00:00Z") : u \in Users}
    \cup {Profile(u, 5, "not-a-date") : u \in Users}
\* what a raw profile may carry as its badges or public_reviews: null, a list
\* in place of the mapping, a mapping without edges, with null edges, with an
\* empty or a filled edges list; Missing stands for a profile without the key
Missing    == [kind |-> "missing"]
Containers ==
    {None, List(<<>>), [kind |-> "dict"], [kind |-> "dict", edges |-> None],
     [kind |-> "dict", edges |-> List(<<>>)],
     [kind |-> "dict", edges |-> List(<<[kind |-> "dict", node |-> "badge"]>>)]}
WithContainers(u, badges, public_reviews) ==
    LET base == Profile(u, 3, "2020-01-01T00:00:00Z")
        keys == DOMAIN base \ ((IF badges = Missing THEN {"badges"} ELSE {})
                                \cup (IF public_reviews = Missing
                                      THEN {"public_reviews"} ELSE {}))
    IN  [k \in keys |-> IF k = "badges" THEN badges
                        ELSE IF k = "public_reviews" THEN public_reviews
                        ELSE base[k]]
RawProfiles ==
    {WithContainers(u, c, [kind |-> "dict", edges |-> List(<<>>)]) :
         u \in Users, c \in Containers \cup {Missing}}
    \cup {WithContainers(u, [kind |-> "dict", edges |-> List(<<>>)], c) :
         u \in Users, c \in Containers \cup {Missing}}

\* what the remote API answers for the profile query of identity u
RemoteProfiles(u) == {Profile(u, c, "2020-01-01T00:00:00Z") : c \in Counts}

(* ---------------- graphql_requests.graphql_post_request ---------------- *)
\* None on a non-200 status or on any exception, the decoded body otherwise
graphql_post_request(outcome) ==
    IF outcome.status = 200 /\ ~outcome.exception THEN outcome.json ELSE None

\* the body of an answer to the hacktivity search query
SearchResponse(nodes) == [kind |-> "dict", data |-> [search |-> [nodes |-> nodes]]]

SearchOutcomes ==
    {[status |-> 200, exception |-> FALSE, json |-> SearchResponse(pg)] : pg \in Pages}
    \cup {[status |-> 500, exception |-> FALSE, json |-> None],
          [status |-> 200, exception |-> TRUE, json |-> None]}

ProfileOutcomes(u) ==
    {[status |-> 200, exception |-> FALSE,
      json |-> [kind |-> "dict", data |-> [user |-> ud]]] :
        ud \in RemoteProfiles(u) \cup {None}}
    \cup {[status |-> 500, exception |-> FALSE, json |-> None],
          [status |-> 200, exception |-> TRUE, json |-> None]}

(* ------------------------- data_manager.py ----------------------------- *)
\* PrimaryData(None, username, source, jsondata)
PrimaryData(username, source, json_info) ==
    [id |-> NoneId, username |-> username, source |-> source,
     json_info |-> json_info, created_at |-> NoneId]

\* node['reporter'] raises KeyError when the node has no reporter key
process_nodes_raises(nodes) ==
    \E i \in 1..Len(nodes) : "reporter" \notin DOMAIN nodes[i]

RECURSIVE process_nodes(_)
process_nodes(nodes) ==
    IF nodes = <<>> THEN <<>>
    ELSE LET node == Head(nodes)
         IN  IF node.reporter # None
             THEN <<PrimaryData(node.reporter.username, node.typename, node)>>
                      \o process_nodes(Tail(nodes))
             ELSE process_nodes(Tail(nodes))

(* --------------------------- db.FinallyData ---------------------------- *)
from_user_data(user_data) ==
    LET badges == Get(user_data, "badges", [kind |-> "dict"])
        badges_json == IF badges.kind = "dict" THEN Get(badges, "edges", List(<<>>))
                       ELSE List(<<>>)
        public_reviews == Get(user_data, "public_reviews", [kind |-> "dict"])
        public_reviews_json == IF public_reviews.kind = "dict"
                               THEN Get(public_reviews, "edges", List(<<>>))
                               ELSE List(<<>>)
    IN  [id |-> NoneId,
         username |-> Get(user_data, "username", ""),
         name |-> Get(user_data, "name", NULL),
         location |-> Get(user_data, "location", NULL),
         github_handle |-> Get(user_data, "github_handle", NULL),
         resolved_report_count |-> Get(user_data, "resolved_report_count", 0),
         profile_created_at |-> Get(user_data, "created_at", NULL),
         badges_json |-> badges_json,
         public_reviews_json |-> public_reviews_json,
         created_at |-> NoneId]

to_db_dict(data) ==
    [username |-> data.username,
     name |-> data.name,
     location |-> data.location,
     github_handle |-> data.github_handle,
     resolved_report_count |-> data.resolved_report_count,
     profile_created_at |-> data.profile_created_at,
     badges_json |-> dumps(data.badges_json),
     public_reviews_json |-> dumps(data.public_reviews_json)]

\* FinallyData defines no from_db_row: the attribute lookup raises AttributeError
from_db_row(row) == RAISE

\* process_profile without the test for an absent profile
process_profile_unchecked(user_data) == from_user_data(user_data)

\* process_profile: None in, None out
process_profile(user_data) ==
    IF user_data = None THEN None ELSE from_user_data(user_data)

(* -------------------------- db.DatabaseManager ------------------------- *)
\* a conversion that stores what it cannot parse as it came
_parse_timestamp_verbatim(timestamp_str) ==
    IF timestamp_str = NULL \/ timestamp_str = "" THEN NULL
    ELSE IF timestamp_str = "2020-01-01T00:00:00Z" THEN "2020-01-01 00:00:00"
    ELSE IF timestamp_str = "2020-01-01T10:30:00+02:00" THEN "2020-01-01 10:30:00"
    ELSE timestamp_str

\* datetime.fromisoformat(s.replace('Z', '+00:00')).strftime('%Y-%m-%d %H:%M:%S')
\* on the timestamps of the model; None for falsy or unparseable input
_parse_timestamp(timestamp_str) ==
    IF timestamp_str = NULL \/ timestamp_str = "" THEN NULL
    ELSE IF timestamp_str = "2020-01-01T00:00:00Z" THEN "2020-01-01 00:00:00"
    ELSE IF timestamp_str = "2020-01-01T10:30:00+02:00" THEN "2020-01-01 10:30:00"
    ELSE NULL

Ids(table) == {table[i].id : i \in DOMAIN table}
Usernames(table) == {table[i].username : i \in DOMAIN table}

\* add_primary_record that skips a record already staged
add_primary_record_dedup(table, seq, data, clock, fault) ==
    LET Same(row) == /\ row.username = data.username
                     /\ row.source = data.source
                     /\ row.json_info = dumps(data.json_info)
        same == SelectSeq(table, Same)
    IN  IF fault THEN [raised |-> TRUE, table |-> table, seq |-> seq, res |-> NoneId]
        ELSE IF same # <<>>
        THEN [raised |-> FALSE, table |-> table, seq |-> seq, res |-> same[1].id]
        ELSE [raised |-> FALSE,
              table |-> Append(table, [id |-> seq + 1, username |-> data.username,
                                       source |-> data.source,
                                       json_info |-> dumps(data.json_info),
                                       created_at |-> clock]),
              seq |-> seq + 1,
              res |-> seq + 1]

\* INSERT INTO primary_table (username, source, json_info): AUTOINCREMENT id,
\* created_at DEFAULT CURRENT_TIMESTAMP; raise on a storage fault
add_primary_record(table, seq, data, clock, fault) ==
    IF fault THEN [raised |-> TRUE, table |-> table, seq |-> seq, res |-> NoneId]
    ELSE [raised |-> FALSE,
          table |-> Append(table, [id |-> seq + 1, username |-> data.username,
                                   source |-> data.source,
                                   json_info |-> dumps(data.json_info),
                                   created_at |-> clock]),
          seq |-> seq + 1,
          res |-> seq + 1]

\* row of primary_table -> PrimaryData
PrimaryOfRow(row) ==
    [id |-> row.id, username |-> row.username, source |-> row.source,
     json_info |-> loads(row.json_info), created_at |-> row.created_at]

\* every order of a set of rows
RECURSIVE OrdersOf(_)
OrdersOf(rows) ==
    IF rows = {} THEN {<<>>}
    ELSE UNION {{<<r>> \o rest : rest \in OrdersOf(rows \ {r})} : r \in rows}

\* every order that ORDER BY created_at DESC admits for the rows created in
\* the seconds lo..hi: newer seconds first, rows of the same second in an
\* order SQL leaves open
RECURSIVE OrderByCreatedAtDesc(_, _, _)
OrderByCreatedAtDesc(rows, hi, lo) ==
    IF hi < lo THEN {<<>>}
    ELSE IF hi = lo THEN OrdersOf({r \in rows : r.created_at = hi})
    ELSE LET mid == (hi + lo) \div 2
         IN  {newer \o older : newer \in OrderByCreatedAtDesc(rows, hi, mid + 1),
                               older \in OrderByCreatedAtDesc(rows, mid, lo)}

FirstRows(s, limit) == SubSeq(s, 1, IF Len(s) < limit THEN Len(s) ELSE limit)

\* SELECT * FROM primary_table ORDER BY created_at DESC LIMIT limit;
\* an exception is logged and answered by the empty list
get_all_primary_records(table, limit, fault) ==
    IF fault THEN {<<>>}
    ELSE LET rows == {table[i] : i \in DOMAIN table}
             times == {r.created_at : r \in rows}
             hi == IF rows = {} THEN 0 ELSE CHOOSE t \in times : \A q \in times : q <= t
             lo == IF rows = {} THEN 1 ELSE CHOOSE t \in times : \A q \in times : t <= q
         IN  {[i \in DOMAIN FirstRows(s, limit) |-> PrimaryOfRow(s[i])] :
                  s \in OrderByCreatedAtDesc(rows, hi, lo)}

\* a lookup that answers with the newest row of the username
get_primary_by_username_latest(table, username, fault) ==
    IF fault THEN None
    ELSE LET Has(row) == row.username = username
             rows == SelectSeq(table, Has)
         IN  IF rows = <<>> THEN None ELSE PrimaryOfRow(rows[Len(rows)])

\* SELECT * FROM primary_table WHERE username = ? and fetchone: the table has
\* no index on username, so the scan runs in rowid order and the first match
\* is the row of that username with the lowest id; None when there is no such
\* row, and when an exception is logged
get_primary_by_username(table, username, fault) ==
    IF fault THEN None
    ELSE LET Has(row) == row.username = username
             rows == SelectSeq(table, Has)
         IN  IF rows = <<>> THEN None ELSE PrimaryOfRow(rows[1])

\* update_primary_record whose UPDATE has lost its WHERE clause
update_primary_record_all(table, record_id, data, fault) ==
    IF fault THEN [table |-> table, res |-> FALSE]
    ELSE [table |-> [i \in DOMAIN table |->
                        [table[i] EXCEPT !.username = data.username,
                                         !.source = data.source,
                                         !.json_info = dumps(data.json_info)]],
          res |-> table # <<>>]

\* UPDATE primary_table SET username, source, json_info WHERE id = ?
update_primary_record(table, record_id, data, fault) ==
    IF fault THEN [table |-> table, res |-> FALSE]
    ELSE [table |-> [i \in DOMAIN table |->
                        IF table[i].id = record_id
                        THEN [table[i] EXCEPT !.username = data.username,
                                              !.source = data.source,
                                              !.json_info = dumps(data.json_info)]
                        ELSE table[i]],
          res |-> record_id \in Ids(table)]

\* DELETE FROM primary_table WHERE id = ?
delete_primary_record(table, record_id, fault) ==
    IF fault THEN [table |-> table, res |-> FALSE]
    ELSE LET Keep(row) == row.id # record_id
         IN  [table |-> SelectSeq(table, Keep), res |-> record_id \in Ids(table)]

\* add_finally_record as INSERT OR REPLACE on the username
add_finally_record_replace(table, seq, data, clock, fault) ==
    IF data = None THEN [raised |-> FALSE, table |-> table, seq |-> seq, res |-> NoneId]
    ELSE IF fault THEN [raised |-> TRUE, table |-> table, seq |-> seq, res |-> NoneId]
    ELSE LET db_data == to_db_dict(data)
             Other(row) == row.username # db_data.username
         IN  [raised |-> FALSE,
              table |-> Append(SelectSeq(table, Other),
                  [id |-> seq + 1,
                   username |-> db_data.username,
                   name |-> db_data.name,
                   location |-> db_data.location,
                   github_handle |-> db_data.github_handle,
                   resolved_report_count |-> db_data.resolved_report_count,
                   profile_created_at |-> _parse_timestamp(db_data.profile_created_at),
                   badges_json |-> db_data.badges_json,
                   public_reviews_json |-> db_data.public_reviews_json,
                   created_at |-> clock]),
              seq |-> seq + 1,
              res |-> seq + 1]

\* INSERT INTO finally_table (...): AUTOINCREMENT id, created_at DEFAULT
\* CURRENT_TIMESTAMP; None for absent data, raise on a storage fault
add_finally_record(table, seq, data, clock, fault) ==
    IF data = None THEN [raised |-> FALSE, table |-> table, seq |-> seq, res |-> NoneId]
    ELSE IF fault THEN [raised |-> TRUE, table |-> table, seq |-> seq, res |-> NoneId]
    ELSE LET db_data == to_db_dict(data)
         IN  [raised |-> FALSE,
              table |-> Append(table,
                  [id |-> seq + 1,
                   username |-> db_data.username,
                   name |-> db_data.name,
                   location |-> db_data.location,
                   github_handle |-> db_data.github_handle,
                   resolved_report_count |-> db_data.resolved_report_count,
                   profile_created_at |-> _parse_timestamp(db_data.profile_created_at),
                   badges_json |-> db_data.badges_json,
                   public_reviews_json |-> db_data.public_reviews_json,
                   created_at |-> clock]),
              seq |-> seq + 1,
              res |-> seq + 1]

\* SELECT * FROM finally_table WHERE username = ?  fetchone, from_db_row;
\* any exception is logged and answered by None
get_finally_by_username(table, username, fault) ==
    IF fault THEN None
    ELSE LET Match(row) == row.username = username
             rows == SelectSeq(table, Match)
         IN  IF rows # <<>>
             THEN (IF from_db_row(rows[1]) = RAISE THEN None ELSE from_db_row(rows[1]))
             ELSE None

\* SELECT * FROM finally_table WHERE id = ?  fetchone, from_db_row;
\* any exception is logged and answered by None
get_finally_by_id(table, record_id, fault) ==
    IF fault THEN None
    ELSE LET Match(row) == row.id = record_id
             rows == SelectSeq(table, Match)
         IN  IF rows # <<>>
             THEN (IF from_db_row(rows[1]) = RAISE THEN None ELSE from_db_row(rows[1]))
             ELSE None

\* the characters of the texts the model stores
Chars(text) ==
    CASE text = "alice" -> <<"a", "l", "i", "c", "e">>
      [] text = "bob"   -> <<"b", "o", "b">>
      [] text = "Al"    -> <<"A", "l">>
      [] text = "Bo"    -> <<"B", "o">>
      [] OTHER          -> <<>>

\* SQLite folds the case of ASCII letters in LIKE
Lower(ch) ==
    CASE ch = "A" -> "a" [] ch = "B" -> "b" [] ch = "L" -> "l" [] ch = "O" -> "o"
      [] OTHER -> ch

\* text LIKE pattern: % matches any run of characters, _ any one character
RECURSIVE Like(_, _)
Like(pattern, text) ==
    IF pattern = <<>> THEN text = <<>>
    ELSE IF Head(pattern) = "%"
         THEN \/ Like(Tail(pattern), text)
              \/ text # <<>> /\ Like(pattern, Tail(text))
    ELSE IF text = <<>> THEN FALSE
    ELSE IF Head(pattern) = "_" THEN Like(Tail(pattern), Tail(text))
    ELSE Lower(Head(pattern)) = Lower(Head(text)) /\ Like(Tail(pattern), Tail(text))

valid_fields == {"username", "name", "location", "github_handle"}

\* SELECT * FROM finally_table WHERE {field} LIKE '%query%', from_db_row on
\* every row; a field outside valid_fields is replaced by username; any
\* exception is logged and answered by the empty list
search_finally_records(table, search_query, field, fault) ==
    IF fault THEN <<>>
    ELSE LET column == IF field \in valid_fields THEN field ELSE "username"
             Match(row) == /\ row[column] # NULL
                           /\ Like(<<"%">> \o search_query \o <<"%">>, Chars(row[column]))
             rows == SelectSeq(table, Match)
         IN  IF \E i \in DOMAIN rows : from_db_row(rows[i]) = RAISE THEN <<>>
             ELSE [i \in DOMAIN rows |-> from_db_row(rows[i])]

\* UPDATE finally_table SET <every column but id, username, created_at>
\* WHERE username = ?; False on an exception
update_finally_record(table, username, data, fault) ==
    IF fault THEN [table |-> table, res |-> FALSE]
    ELSE LET db_data == to_db_dict(data)
         IN  [table |-> [i \in DOMAIN table |->
                  IF table[i].username = username
                  THEN [table[i] EXCEPT
                          !.name = db_data.name,
                          !.location = db_data.location,
                          !.github_handle = db_data.github_handle,
                          !.resolved_report_count = db_data.resolved_report_count,
                          !.profile_created_at = _parse_timestamp(db_data.profile_created_at),
                          !.badges_json = db_data.badges_json,
                          !.public_reviews_json = db_data.public_reviews_json]
                  ELSE table[i]],
              res |-> username \in Usernames(table)]

\* DELETE FROM finally_table WHERE username = ?
delete_finally_record(table, username, fault) ==
    IF fault THEN [table |-> table, res |-> FALSE]
    ELSE LET Keep(row) == row.username # username
         IN  [table |-> SelectSeq(table, Keep), res |-> username \in Usernames(table)]

\* DELETE FROM finally_table WHERE id = ?
delete_finally_by_id(table, record_id, fault) ==
    IF fault THEN [table |-> table, res |-> FALSE]
    ELSE LET Keep(row) == row.id # record_id
         IN  [table |-> SelectSeq(table, Keep), res |-> record_id \in Ids(table)]

\* from_user_data, lookup by username, then update or insert
\* the part of add_or_update_finally_record after the lookup: if existing then
\* update_finally_record, else add_finally_record
add_or_update_write(table, seq, data, existing, clock, writeFault) ==
    IF existing # None
    THEN LET upd == update_finally_record(table, data.username,
                        [data EXCEPT !.id = existing.id,
                                     !.created_at = existing.created_at],
                        writeFault)
         IN  [raised |-> FALSE, table |-> upd.table, seq |-> seq,
              res |-> IF upd.res THEN existing.id ELSE 0]
    ELSE add_finally_record(table, seq, data, clock, writeFault)

add_or_update_finally_record(table, seq, user_data, clock, readFault, writeFault) ==
    LET data == from_user_data(user_data)
        existing == get_finally_by_username(table, data.username, readFault)
    IN  add_or_update_write(table, seq, data, existing, clock, writeFault)

(* ------------------------------- state --------------------------------- *)
VARIABLES
    primary_table,      \* rows of primary_table, in rowid order
    finally_table,      \* rows of finally_table, in rowid order
    primary_seq,        \* sqlite_sequence of primary_table (AUTOINCREMENT)
    finally_seq,        \* sqlite_sequence of finally_table (AUTOINCREMENT)
    now,                \* CURRENT_TIMESTAMP, in seconds
    h_pc,               \* hacktivity_search: idle, open, write, done, aborted
    h_data,             \* processed_data not yet written
    p_pc,               \* profile_info_search: idle, snapshot, loop, done, aborted
    p_data,             \* primary_data not yet enriched
    connection,         \* which stage holds an open aiosqlite connection
    runs1, runs2, nops, \* invocations so far
    attempted,          \* history: identities fetched so far in this stage-2 run
    staged_at_start,    \* history: identities staged when this run read the snapshot
    h_last,             \* history: the last step of hacktivity_search
    h_run,              \* history: what this hacktivity_search run started from
    p_last,             \* history: the last step of profile_info_search
    s_last,             \* history: the last direct call of a store operation
    upserts             \* add_or_update_finally_record calls suspended at an await

vars == <<primary_table, finally_table, primary_seq, finally_seq, now,
          h_pc, h_data, p_pc, p_data, connection, runs1, runs2, nops,
          attempted, staged_at_start, h_last, h_run, p_last, s_last, upserts>>

stores  == <<primary_table, finally_table, primary_seq, finally_seq>>
stage1  == <<h_pc, h_data, runs1, h_last, h_run>>
stage2  == <<p_pc, p_data, runs2, attempted, staged_at_start, p_last>>
direct  == <<nops, s_last>>

\* the coroutines that may be inside add_or_update_finally_record at once
Callers == {1, 2}

\* a coroutine that is not inside the call
Idle == [pc |-> "idle"]

Op(op, user, existed, res, raised) ==
    [op |-> op, user |-> user, existed |-> existed, res |-> res, raised |-> raised]

\* a call that answers with a record or a list rather than a number
Read(op, user, out, raised) ==
    [op |-> op, user |-> user, existed |-> FALSE, res |-> NoneId, raised |-> raised,
     out |-> out]

Int01(b) == IF b THEN 1 ELSE 0

\* a run of hacktivity_search: the last generated id before it, the response
\* it got and the processed_data it set out to write
Run(base, response, batch) == [base |-> base, response |-> response, batch |-> batch]

Init ==
    /\ primary_table = <<>>
    /\ finally_table = <<>>
    /\ primary_seq = 0
    /\ finally_seq = 0
    /\ now = 0
    /\ h_pc = "idle"
    /\ h_data = <<>>
    /\ p_pc = "idle"
    /\ p_data = <<>>
    /\ connection = [stage1 |-> FALSE, stage2 |-> FALSE]
    /\ runs1 = 0
    /\ runs2 = 0
    /\ nops = 0
    /\ attempted = <<>>
    /\ staged_at_start = {}
    /\ h_last = Op("init", NULL, FALSE, NoneId, FALSE)
    /\ h_run = Run(0, None, <<>>)
    /\ p_last = Op("init", NULL, FALSE, NoneId, FALSE)
    /\ s_last = Op("init", NULL, FALSE, NoneId, FALSE)
    /\ upserts = [c \in Callers |-> Idle]

\* the clock of CURRENT_TIMESTAMP advances
Tick ==
    /\ now < MaxClock
    /\ now' = now + 1
    /\ UNCHANGED <<stores, stage1, stage2, connection, direct, upserts>>

(* ---------------------- main.hacktivity_search ------------------------- *)
\* a request step that takes a failed transport call for an empty page
hacktivity_request_tolerant(outcome) ==
    /\ h_pc \in {"idle", "done", "aborted"}
    /\ runs1 < MaxRuns1
    /\ runs1' = runs1 + 1
    /\ LET response == graphql_post_request(outcome)
           nodes == IF response = None THEN <<>> ELSE response.data.search.nodes
           raised == process_nodes_raises(nodes)
       IN  /\ h_pc' = IF raised THEN "aborted" ELSE "open"
           /\ h_data' = IF raised THEN <<>> ELSE process_nodes(nodes)
           /\ h_last' = Op("hacktivity_search", NULL, FALSE, NoneId, raised)
           /\ h_run' = Run(primary_seq, response, h_data')
    /\ UNCHANGED <<stores, now, stage2, connection, direct, upserts>>

\* query, transport, nodes = response['data']['search']['nodes'], process_nodes
hacktivity_request(outcome) ==
    /\ h_pc \in {"idle", "done", "aborted"}
    /\ runs1 < MaxRuns1
    /\ runs1' = runs1 + 1
    /\ LET response == graphql_post_request(outcome)
           raised == \/ response = None                      \* None['data']: TypeError
                     \/ process_nodes_raises(response.data.search.nodes)
       IN  /\ h_pc' = IF raised THEN "aborted" ELSE "open"
           /\ h_data' = IF raised THEN <<>>
                        ELSE process_nodes(response.data.search.nodes)
           /\ h_last' = Op("hacktivity_search", NULL, FALSE, NoneId, raised)
           /\ h_run' = Run(primary_seq, response, h_data')
    /\ UNCHANGED <<stores, now, stage2, connection, direct, upserts>>

\* async with DatabaseManager('data.db'): connect, then initialize; a fault
\* in initialize leaves __aenter__ before the with-block is entered
hacktivity_open(fault) ==
    /\ h_pc = "open"
    /\ connection' = [connection EXCEPT !.stage1 = TRUE]
    /\ h_pc' = IF fault THEN "aborted" ELSE "write"
    /\ h_last' = Op("__aenter__", NULL, FALSE, NoneId, fault)
    /\ UNCHANGED <<stores, now, h_data, runs1, h_run, stage2, direct, upserts>>

\* a loop that logs the fault of add_primary_record and goes on with the next
\* record
hacktivity_write_continue(fault) ==
    /\ h_pc = "write"
    /\ h_data # <<>>
    /\ LET obj == Head(h_data)
           r == add_primary_record(primary_table, primary_seq, obj, now, fault)
       IN  /\ r.seq <= MaxPrimary
           /\ primary_table' = r.table
           /\ primary_seq' = r.seq
           /\ h_pc' = "write"
           /\ h_data' = Tail(h_data)
           /\ connection' = connection
           /\ h_last' = Op("add_primary_record", obj.username,
                         obj.username \in Usernames(primary_table), r.res, r.raised)
    /\ UNCHANGED <<finally_table, finally_seq, now, runs1, h_run, stage2, direct, upserts>>

\* for obj in processed_data: await db.add_primary_record(obj)
hacktivity_write(fault) ==
    /\ h_pc = "write"
    /\ h_data # <<>>
    /\ LET obj == Head(h_data)
           r == add_primary_record(primary_table, primary_seq, obj, now, fault)
       IN  /\ r.seq <= MaxPrimary
           /\ primary_table' = r.table
           /\ primary_seq' = r.seq
           /\ h_pc' = IF r.raised THEN "aborted" ELSE "write"
           /\ h_data' = IF r.raised THEN h_data ELSE Tail(h_data)
           /\ connection' = IF r.raised THEN [connection EXCEPT !.stage1 = FALSE]
                            ELSE connection
           /\ h_last' = Op("add_primary_record", obj.username,
                         obj.username \in Usernames(primary_table), r.res, r.raised)
    /\ UNCHANGED <<finally_table, finally_seq, now, runs1, h_run, stage2, direct, upserts>>

\* the loop is exhausted: __aexit__ closes the connection
hacktivity_done ==
    /\ h_pc = "write"
    /\ h_data = <<>>
    /\ h_pc' = "done"
    /\ connection' = [connection EXCEPT !.stage1 = FALSE]
    /\ h_last' = Op("hacktivity_search_done", NULL, FALSE, NoneId, FALSE)
    /\ UNCHANGED <<stores, now, h_data, runs1, h_run, stage2, direct, upserts>>

(* --------------------- main.profile_info_search ------------------------ *)
\* async with DatabaseManager('data.db') as db
profile_open(fault) ==
    /\ p_pc \in {"idle", "done", "aborted"}
    /\ runs2 < MaxRuns2
    /\ runs2' = runs2 + 1
    /\ connection' = [connection EXCEPT !.stage2 = TRUE]
    /\ p_pc' = IF fault THEN "aborted" ELSE "snapshot"
    /\ p_data' = <<>>
    /\ attempted' = <<>>
    /\ staged_at_start' = {}
    /\ p_last' = Op("__aenter__", NULL, FALSE, NoneId, fault)
    /\ UNCHANGED <<stores, now, stage1, direct, upserts>>

\* primary_data = await db.get_all_primary_records()
profile_snapshot(fault) ==
    /\ p_pc = "snapshot"
    /\ \E rows \in get_all_primary_records(primary_table, DEFAULT_LIMIT, fault) :
           p_data' = rows
    /\ p_pc' = "loop"
    /\ staged_at_start' = Usernames(primary_table)
    /\ p_last' = Op("get_all_primary_records", NULL, FALSE, Len(p_data'), fault)
    /\ UNCHANGED <<stores, now, stage1, runs2, attempted, connection, direct, upserts>>

\* a loop that asks again for the same identity when the transport call fails
profile_step_retry(outcome, fault) ==
    /\ p_pc = "loop"
    /\ p_data # <<>>
    /\ LET username == Head(p_data).username
           response == graphql_post_request(outcome)
           processed_data == IF response = None THEN None
                             ELSE process_profile(response.data.user)
           r == add_finally_record(finally_table, finally_seq, processed_data, now, fault)
           retry == response = None
           raised == ~retry /\ r.raised
       IN  /\ outcome \in ProfileOutcomes(username)
           /\ r.seq <= MaxFinal
           /\ attempted' = Append(attempted, username)
           /\ finally_table' = IF raised \/ retry THEN finally_table ELSE r.table
           /\ finally_seq' = IF raised \/ retry THEN finally_seq ELSE r.seq
           /\ p_pc' = IF raised THEN "aborted" ELSE "loop"
           /\ p_data' = IF raised \/ retry THEN p_data ELSE Tail(p_data)
           /\ connection' = IF raised THEN [connection EXCEPT !.stage2 = FALSE]
                            ELSE connection
           /\ p_last' = Op("profile_info_search", username,
                         username \in Usernames(finally_table),
                         IF raised \/ retry THEN NoneId ELSE r.res, raised)
    /\ UNCHANGED <<primary_table, primary_seq, now, stage1, runs2, staged_at_start, direct, upserts>>

\* one iteration of the loop: query, transport, response['data']['user'],
\* process_profile, add_finally_record
profile_step(outcome, fault) ==
    /\ p_pc = "loop"
    /\ p_data # <<>>
    /\ LET username == Head(p_data).username
           response == graphql_post_request(outcome)
           processed_data == IF response = None THEN None
                             ELSE process_profile(response.data.user)
           r == add_finally_record(finally_table, finally_seq, processed_data, now, fault)
           raised == response = None \/ r.raised           \* None['data']: TypeError
       IN  /\ outcome \in ProfileOutcomes(username)
           /\ r.seq <= MaxFinal
           /\ attempted' = Append(attempted, username)
           /\ finally_table' = IF raised THEN finally_table ELSE r.table
           /\ finally_seq' = IF raised THEN finally_seq ELSE r.seq
           /\ p_pc' = IF raised THEN "aborted" ELSE "loop"
           /\ p_data' = IF raised THEN p_data ELSE Tail(p_data)
           /\ connection' = IF raised THEN [connection EXCEPT !.stage2 = FALSE]
                            ELSE connection
           /\ p_last' = Op("profile_info_search", username,
                         username \in Usernames(finally_table),
                         IF raised THEN NoneId ELSE r.res, raised)
    /\ UNCHANGED <<primary_table, primary_seq, now, stage1, runs2, staged_at_start, direct, upserts>>

\* the loop is exhausted: __aexit__ closes the connection
profile_done ==
    /\ p_pc = "loop"
    /\ p_data = <<>>
    /\ p_pc' = "done"
    /\ connection' = [connection EXCEPT !.stage2 = FALSE]
    /\ p_last' = Op("profile_info_search_done", NULL, FALSE, NoneId, FALSE)
    /\ UNCHANGED <<stores, now, stage1, p_data, runs2, attempted, staged_at_start, direct, upserts>>

(* ------------- operations of DatabaseManager called directly ----------- *)
PrimaryInputs == {PrimaryData(u, t, [kind |-> "dict", reporter |-> Reporter(u), typename |-> t]) :
                      u \in Users, t \in Typenames}

store_add_primary_record(data, fault) ==
    /\ nops < MaxOps
    /\ nops' = nops + 1
    /\ LET r == add_primary_record(primary_table, primary_seq, data, now, fault)
       IN  /\ r.seq <= MaxPrimary
           /\ primary_table' = r.table
           /\ primary_seq' = r.seq
           /\ s_last' = Op("add_primary_record", data.username,
                           data.username \in Usernames(primary_table), r.res, r.raised)
    /\ UNCHANGED <<finally_table, finally_seq, now, stage1, stage2, connection, upserts>>

store_add_finally_record(user_data, fault) ==
    /\ nops < MaxOps
    /\ nops' = nops + 1
    /\ LET data == process_profile(user_data)
           r == add_finally_record(finally_table, finally_seq, data, now, fault)
       IN  /\ r.seq <= MaxFinal
           /\ finally_table' = r.table
           /\ finally_seq' = r.seq
           /\ s_last' = Op("add_finally_record",
                           IF user_data = None THEN NULL ELSE user_data.username,
                           user_data # None /\ user_data.username \in Usernames(finally_table),
                           r.res, r.raised)
    /\ UNCHANGED <<primary_table, primary_seq, now, stage1, stage2, connection, upserts>>

store_add_or_update_finally_record(user_data, readFault, writeFault) ==
    /\ nops < MaxOps
    /\ nops' = nops + 1
    /\ LET r == add_or_update_finally_record(finally_table, finally_seq, user_data,
                                             now, readFault, writeFault)
       IN  /\ r.seq <= MaxFinal
           /\ finally_table' = r.table
           /\ finally_seq' = r.seq
           /\ s_last' = Op("add_or_update_finally_record", user_data.username,
                         user_data.username \in Usernames(finally_table),
                         r.res, r.raised)
    /\ UNCHANGED <<primary_table, primary_seq, now, stage1, stage2, connection, upserts>>

store_update_finally_record(username, user_data, fault) ==
    /\ nops < MaxOps
    /\ nops' = nops + 1
    /\ LET r == update_finally_record(finally_table, username,
                                      from_user_data(user_data), fault)
       IN  /\ finally_table' = r.table
           /\ s_last' = Op("update_finally_record", username,
                         username \in Usernames(finally_table),
                         Int01(r.res), FALSE)
    /\ UNCHANGED <<primary_table, primary_seq, finally_seq, now, stage1, stage2, connection, upserts>>

store_delete_finally_record(username, fault) ==
    /\ nops < MaxOps
    /\ nops' = nops + 1
    /\ LET r == delete_finally_record(finally_table, username, fault)
       IN  /\ finally_table' = r.table
           /\ s_last' = Op("delete_finally_record", username,
                         username \in Usernames(finally_table), Int01(r.res), FALSE)
    /\ UNCHANGED <<primary_table, primary_seq, finally_seq, now, stage1, stage2, connection, upserts>>

store_delete_finally_by_id(record_id, fault) ==
    /\ nops < MaxOps
    /\ nops' = nops + 1
    /\ LET r == delete_finally_by_id(finally_table, record_id, fault)
       IN  /\ finally_table' = r.table
           /\ s_last' = Op("delete_finally_by_id", NULL,
                         record_id \in Ids(finally_table), Int01(r.res), FALSE)
    /\ UNCHANGED <<primary_table, primary_seq, finally_seq, now, stage1, stage2, connection, upserts>>

store_update_primary_record(record_id, data, fault) ==
    /\ nops < MaxOps
    /\ nops' = nops + 1
    /\ LET r == update_primary_record(primary_table, record_id, data, fault)
       IN  /\ primary_table' = r.table
           /\ s_last' = Op("update_primary_record", data.username,
                         record_id \in Ids(primary_table), Int01(r.res), FALSE)
    /\ UNCHANGED <<finally_table, primary_seq, finally_seq, now, stage1, stage2,
                   connection, upserts>>

store_delete_primary_record(record_id, fault) ==
    /\ nops < MaxOps
    /\ nops' = nops + 1
    /\ LET r == delete_primary_record(primary_table, record_id, fault)
       IN  /\ primary_table' = r.table
           /\ s_last' = Op("delete_primary_record", NULL,
                         record_id \in Ids(primary_table), Int01(r.res), FALSE)
    /\ UNCHANGED <<finally_table, primary_seq, finally_seq, now, stage1, stage2,
                   connection, upserts>>

store_get_finally_by_username(username, fault) ==
    /\ nops < MaxOps
    /\ nops' = nops + 1
    /\ s_last' = Read("get_finally_by_username", username,
                      get_finally_by_username(finally_table, username, fault), FALSE)
    /\ UNCHANGED <<stores, now, stage1, stage2, connection, upserts>>

store_get_finally_by_id(record_id, fault) ==
    /\ nops < MaxOps
    /\ nops' = nops + 1
    /\ s_last' = Read("get_finally_by_id", NULL,
                      get_finally_by_id(finally_table, record_id, fault), FALSE)
    /\ UNCHANGED <<stores, now, stage1, stage2, connection, upserts>>

(* add_or_update_finally_record as the event loop runs it: the call is      *)
(* suspended at await get_finally_by_username and again at the await of the *)
(* write, and another coroutine may run in between.                         *)
\* data = from_user_data(user_data); existing = await get_finally_by_username;
\* seq remembers the last generated key the lookup could have seen
upsert_lookup(c, user_data, fault) ==
    /\ upserts[c].pc = "idle"
    /\ nops < MaxOps
    /\ nops' = nops + 1
    /\ LET data == from_user_data(user_data)
       IN  upserts' = [upserts EXCEPT ![c] =
                          [pc |-> "write", data |-> data, seq |-> finally_seq,
                           existing |-> get_finally_by_username(finally_table,
                                                                data.username, fault)]]
    /\ UNCHANGED <<stores, now, stage1, stage2, connection, s_last>>

\* the branch on existing and the await of update_finally_record or
\* add_finally_record; the call returns or raises
upsert_write(c, fault) ==
    /\ upserts[c].pc = "write"
    /\ LET data == upserts[c].data
           r == add_or_update_write(finally_table, finally_seq, data,
                                    upserts[c].existing, now, fault)
       IN  /\ r.seq <= MaxFinal
           /\ finally_table' = r.table
           /\ finally_seq' = r.seq
           /\ s_last' = Op("add_or_update_finally_record", data.username,
                         data.username \in Usernames(finally_table),
                         r.res, r.raised)
    /\ upserts' = [upserts EXCEPT ![c] = Idle]
    /\ UNCHANGED <<primary_table, primary_seq, now, stage1, stage2, connection, nops>>

store_get_primary_by_username(username, fault) ==
    /\ nops < MaxOps
    /\ nops' = nops + 1
    /\ s_last' = Read("get_primary_by_username", username,
                      get_primary_by_username(primary_table, username, fault), FALSE)
    /\ UNCHANGED <<stores, now, stage1, stage2, connection, upserts>>

\* the queries and field names handed to search_finally_records
Queries == {<<>>, <<"a">>, <<"O", "B">>, <<"_">>, <<"z">>}
Fields  == valid_fields \cup {"nickname"}

store_search_finally_records(search_query, field, fault) ==
    /\ nops < MaxOps
    /\ nops' = nops + 1
    /\ s_last' = Read("search_finally_records", NULL,
                      search_finally_records(finally_table, search_query, field, fault),
                      FALSE)
    /\ UNCHANGED <<stores, now, stage1, stage2, connection, upserts>>

\* DELETE FROM finally_table; DELETE FROM primary_table; an exception is re-raised
store_clear_all_data(fault) ==
    /\ nops < MaxOps
    /\ nops' = nops + 1
    /\ primary_table' = IF fault THEN primary_table ELSE <<>>
    /\ finally_table' = IF fault THEN finally_table ELSE <<>>
    /\ s_last' = Op("clear_all_data", NULL, FALSE, NoneId, fault)
    /\ UNCHANGED <<primary_seq, finally_seq, now, stage1, stage2, connection, upserts>>

(* --------------------------- specification ----------------------------- *)
AllProfileOutcomes == UNION {ProfileOutcomes(u) : u \in Users}

\* the pipeline: both stages, each possibly invoked again, and the clock
Next ==
    \/ Tick
    \/ \E outcome \in SearchOutcomes : hacktivity_request(outcome)
    \/ \E fault \in BOOLEAN : hacktivity_open(fault)
    \/ \E fault \in BOOLEAN : hacktivity_write(fault)
    \/ hacktivity_done
    \/ \E fault \in BOOLEAN : profile_open(fault)
    \/ \E fault \in BOOLEAN : profile_snapshot(fault)
    \/ \E outcome \in AllProfileOutcomes, fault \in BOOLEAN : profile_step(outcome, fault)
    \/ profile_done

\* a client of DatabaseManager calling the operations on primary_table in
\* any order
NextStaging ==
    \/ Tick
    \/ \E data \in PrimaryInputs, fault \in BOOLEAN : store_add_primary_record(data, fault)
    \/ \E record_id \in 1..MaxPrimary, data \in PrimaryInputs, fault \in BOOLEAN :
           store_update_primary_record(record_id, data, fault)
    \/ \E record_id \in 1..MaxPrimary, fault \in BOOLEAN :
           store_delete_primary_record(record_id, fault)
    \/ \E fault \in BOOLEAN : store_clear_all_data(fault)

\* a client of DatabaseManager calling the operations on finally_table in
\* any order
NextFinal ==
    \/ Tick
    \/ \E user_data \in Profiles \cup {None}, fault \in BOOLEAN :
           store_add_finally_record(user_data, fault)
    \/ \E user_data \in Profiles, rf \in BOOLEAN, wf \in BOOLEAN :
           store_add_or_update_finally_record(user_data, rf, wf)
    \/ \E username \in Users, user_data \in Profiles, fault \in BOOLEAN :
           store_update_finally_record(username, user_data, fault)
    \/ \E username \in Users, fault \in BOOLEAN :
           store_delete_finally_record(username, fault)
    \/ \E record_id \in 1..MaxFinal, fault \in BOOLEAN :
           store_delete_finally_by_id(record_id, fault)
    \/ \E search_query \in Queries, field \in Fields, fault \in BOOLEAN :
           store_search_finally_records(search_query, field, fault)
    \/ \E username \in Users, fault \in BOOLEAN :
           store_get_finally_by_username(username, fault)
    \/ \E record_id \in 1..MaxFinal, fault \in BOOLEAN :
           store_get_finally_by_id(record_id, fault)
    \/ \E fault \in BOOLEAN : store_clear_all_data(fault)

Spec == Init /\ [][Next]_vars

\* stage 1 alone, invoked again and again
NextIngest ==
    \/ Tick
    \/ \E outcome \in SearchOutcomes : hacktivity_request(outcome)
    \/ \E fault \in BOOLEAN : hacktivity_open(fault)
    \/ \E fault \in BOOLEAN : hacktivity_write(fault)
    \/ hacktivity_done

SpecIngest == Init /\ [][NextIngest]_vars

SpecStaging == Init /\ [][NextStaging]_vars

SpecFinal == Init /\ [][NextFinal]_vars

\* coroutines that call add_or_update_finally_record on one store
NextUpsert ==
    \/ Tick
    \/ \E c \in Callers, user_data \in Profiles, fault \in BOOLEAN :
           upsert_lookup(c, user_data, fault)
    \/ \E c \in Callers, fault \in BOOLEAN : upsert_write(c, fault)

SpecUpsert == Init /\ [][NextUpsert]_vars

\* a client that inserts raw profiles with every kind of badges and
\* public_reviews container
NextRaw ==
    \/ Tick
    \/ \E user_data \in RawProfiles, fault \in BOOLEAN :
           store_add_finally_record(user_data, fault)

SpecRaw == Init /\ [][NextRaw]_vars

(* A client that inserts raw profiles whose created_at is well formed, of   *)
(* the right shape with a month that does not exist, not a timestamp at     *)
(* all, empty, null, or not there.                                          *)
RawTimestamps ==
    {"2020-01-01T00:00:00Z", "2020-01-01T10:30:00+02:00", "2020-13-45T00:00:00Z",
     "not-a-date", "", NULL}

StampedProfiles ==
    {Profile(u, 3, ts) : u \in Users, ts \in RawTimestamps}
    \cup {[k \in DOMAIN Profile(u, 3, NULL) \ {"created_at"} |-> Profile(u, 3, NULL)[k]] :
             u \in Users}

NextStamp ==
    \/ Tick
    \/ \E user_data \in StampedProfiles, fault \in BOOLEAN :
           store_add_finally_record(user_data, fault)

SpecStamp == Init /\ [][NextStamp]_vars

(* Stage 2 on the Staging Stores that earlier runs of stage 1 leave behind. *)
\* the row add_primary_record wrote as the i-th, for identity u at second t
StagedRow(i, u, t) ==
    [id |-> i,
     username |-> u,
     source |-> "Disclosed",
     json_info |-> dumps([kind |-> "dict", reporter |-> Reporter(u),
                          typename |-> "Disclosed"]),
     created_at |-> t]

\* up to MaxPrimary rows, appended one per second, the last one just now
StagedStores ==
    UNION {{[i \in 1..n |-> StagedRow(i, us[i], i - n)] : us \in [1..n -> Users]} :
           n \in 0..MaxPrimary}

InitEnrich ==
    /\ primary_table \in StagedStores
    /\ finally_table = <<>>
    /\ primary_seq = Len(primary_table)
    /\ finally_seq = 0
    /\ now = 0
    /\ h_pc = "done"
    /\ h_data = <<>>
    /\ p_pc = "idle"
    /\ p_data = <<>>
    /\ connection = [stage1 |-> FALSE, stage2 |-> FALSE]
    /\ runs1 = MaxRuns1
    /\ runs2 = 0
    /\ nops = 0
    /\ attempted = <<>>
    /\ staged_at_start = {}
    /\ h_last = Op("hacktivity_search_done", NULL, FALSE, NoneId, FALSE)
    /\ h_run = Run(primary_seq, SearchResponse(<<>>), <<>>)
    /\ p_last = Op("init", NULL, FALSE, NoneId, FALSE)
    /\ s_last = Op("init", NULL, FALSE, NoneId, FALSE)
    /\ upserts = [c \in Callers |-> Idle]

NextEnrich ==
    \/ Tick
    \/ \E fault \in BOOLEAN : profile_open(fault)
    \/ \E fault \in BOOLEAN : profile_snapshot(fault)
    \/ \E outcome \in AllProfileOutcomes, fault \in BOOLEAN : profile_step(outcome, fault)
    \/ profile_done

SpecEnrich == InitEnrich /\ [][NextEnrich]_vars

(* One run of stage 1 on the Staging Stores that earlier runs leave behind, *)
(* and a client that looks identities up.  The page is drawn from nodes of  *)
(* two origins, so that two nodes of one identity can differ.               *)
PageTypenames == {"Disclosed", "Undisclosed"}

PageNodes ==
    {[kind |-> "dict", reporter |-> Reporter(u), typename |-> t] :
        u \in Users, t \in PageTypenames}
    \cup {[kind |-> "dict", reporter |-> None, typename |-> "Disclosed"],
          [kind |-> "dict", typename |-> "Disclosed"]}

PageOutcomes ==
    {[status |-> 200, exception |-> FALSE, json |-> SearchResponse(pg)] :
        pg \in SeqsUpTo(PageNodes, MaxPage)}
    \cup {[status |-> 500, exception |-> FALSE, json |-> None]}

InitPage ==
    /\ primary_table \in StagedStores
    /\ finally_table = <<>>
    /\ primary_seq = Len(primary_table)
    /\ finally_seq = 0
    /\ now = 0
    /\ h_pc = "idle"
    /\ h_data = <<>>
    /\ p_pc = "idle"
    /\ p_data = <<>>
    /\ connection = [stage1 |-> FALSE, stage2 |-> FALSE]
    /\ runs1 = MaxRuns1 - 1
    /\ runs2 = 0
    /\ nops = 0
    /\ attempted = <<>>
    /\ staged_at_start = {}
    /\ h_last = Op("init", NULL, FALSE, NoneId, FALSE)
    /\ h_run = Run(primary_seq, SearchResponse(<<>>), <<>>)
    /\ p_last = Op("init", NULL, FALSE, NoneId, FALSE)
    /\ s_last = Op("init", NULL, FALSE, NoneId, FALSE)
    /\ upserts = [c \in Callers |-> Idle]

\* the run and the lookups fall within one second: the clock only stamps
\* created_at, which neither of them reads
NextPage ==
    \/ \E outcome \in PageOutcomes : hacktivity_request(outcome)
    \/ \E fault \in BOOLEAN : hacktivity_open(fault)
    \/ \E fault \in BOOLEAN : hacktivity_write(fault)
    \/ hacktivity_done
    \/ \E username \in Users, fault \in BOOLEAN :
           store_get_primary_by_username(username, fault)

SpecPage == InitPage /\ [][NextPage]_vars

(* main run once on the Staging Stores that earlier runs leave behind:      *)
(* await primary_search(), then await finally_search().                     *)
\* a main that starts finally_search whatever became of primary_search
main_finally_search_regardless(fault) ==
    /\ h_pc \in {"done", "aborted"}
    /\ p_pc = "idle"
    /\ profile_open(fault)

\* await primary_search(): hacktivity_search(100, 0) is entered once
main_primary_search(outcome) ==
    /\ h_pc = "idle"
    /\ hacktivity_request(outcome)

\* await finally_search(): reached when primary_search has returned; an
\* exception of primary_search leaves main at line 43
main_finally_search(fault) ==
    /\ h_pc = "done"
    /\ p_pc = "idle"
    /\ profile_open(fault)

NextMain ==
    \/ Tick
    \/ \E outcome \in SearchOutcomes : main_primary_search(outcome)
    \/ \E fault \in BOOLEAN : hacktivity_open(fault)
    \/ \E fault \in BOOLEAN : hacktivity_write(fault)
    \/ hacktivity_done
    \/ \E fault \in BOOLEAN : main_finally_search(fault)
    \/ \E fault \in BOOLEAN : profile_snapshot(fault)
    \/ \E outcome \in AllProfileOutcomes, fault \in BOOLEAN : profile_step(outcome, fault)
    \/ profile_done

SpecMain == InitPage /\ [][NextMain]_vars

(* main on empty stores, every awaited call returning in the end: the     *)
(* event loop runs the one coroutine of main whenever it has a step to take. *)
MainStep ==
    \/ \E outcome \in SearchOutcomes : main_primary_search(outcome)
    \/ \E fault \in BOOLEAN : hacktivity_open(fault)
    \/ \E fault \in BOOLEAN : hacktivity_write(fault)
    \/ hacktivity_done
    \/ \E fault \in BOOLEAN : main_finally_search(fault)
    \/ \E fault \in BOOLEAN : profile_snapshot(fault)
    \/ \E outcome \in AllProfileOutcomes, fault \in BOOLEAN : profile_step(outcome, fault)
    \/ profile_done

NextMainRun ==
    \/ Tick
    \/ MainStep

SpecMainLive == Init /\ [][NextMainRun]_vars /\ WF_vars(MainStep)

(* A Staging Store that earlier ingest runs have filled with one row more    *)
(* than get_all_primary_records reads: the oldest row is alice's, the later  *)
(* ones bob's, one per second.  Stage 2 runs on it, the storage is sound.    *)
InitLimit ==
    /\ primary_table = [i \in 1..(DEFAULT_LIMIT + 1) |->
                            StagedRow(i, IF i = 1 THEN "alice" ELSE "bob",
                                      i - (DEFAULT_LIMIT + 1))]
    /\ finally_table = <<>>
    /\ primary_seq = DEFAULT_LIMIT + 1
    /\ finally_seq = 0
    /\ now = 0
    /\ h_pc = "done"
    /\ h_data = <<>>
    /\ p_pc = "idle"
    /\ p_data = <<>>
    /\ connection = [stage1 |-> FALSE, stage2 |-> FALSE]
    /\ runs1 = MaxRuns1
    /\ runs2 = 0
    /\ nops = 0
    /\ attempted = <<>>
    /\ staged_at_start = {}
    /\ h_last = Op("hacktivity_search_done", NULL, FALSE, NoneId, FALSE)
    /\ h_run = Run(primary_seq, SearchResponse(<<>>), <<>>)
    /\ p_last = Op("init", NULL, FALSE, NoneId, FALSE)
    /\ s_last = Op("init", NULL, FALSE, NoneId, FALSE)
    /\ upserts = [c \in Callers |-> Idle]

NextLimit ==
    \/ Tick
    \/ profile_open(FALSE)
    \/ profile_snapshot(FALSE)
    \/ \E outcome \in AllProfileOutcomes : profile_step(outcome, FALSE)
    \/ profile_done

SpecLimit == InitLimit /\ [][NextLimit]_vars

TypeOK ==
    /\ h_pc \in {"idle", "open", "write", "done", "aborted"}
    /\ p_pc \in {"idle", "snapshot", "loop", "done", "aborted"}
    /\ now \in 0..MaxClock
    /\ primary_seq \in 0..MaxPrimary
    /\ finally_seq \in 0..MaxFinal
    /\ Len(primary_table) <= primary_seq
    /\ Len(finally_table) <= finally_seq

(* ------------------------------ helpers -------------------------------- *)
Range(seq) == {seq[i] : i \in DOMAIN seq}

\* rows of the Final Store that belong to an identity, in rowid order
RowsOf(table, username) ==
    LET Match(row) == row.username = username IN SelectSeq(table, Match)

\* a Final Store row carries the attribute values of a fetched raw profile
Carries(row, user_data) ==
    /\ row.username = user_data.username
    /\ row.resolved_report_count = user_data.resolved_report_count
    /\ row.profile_created_at = _parse_timestamp(user_data.created_at)
    /\ loads(row.badges_json) = user_data.badges.edges
    /\ loads(row.public_reviews_json) = user_data.public_reviews.edges

\* the profile a transport outcome delivers, None when there is none
FetchedProfile(outcome) ==
    LET response == graphql_post_request(outcome)
    IN  IF response = None THEN None ELSE response.data.user

(* ------------------------------- claims -------------------------------- *)

\* C1: in every reachable state the Final Store holds at most one row per
\* identity: no two rows of finally_table share a username.
C1_OneRowPerIdentity ==
    \A i, j \in DOMAIN finally_table :
        finally_table[i].username = finally_table[j].username => i = j

\* C2: add_or_update_finally_record called for an identity that already has a
\* row leaves that row's id and created_at as they were, whatever the incoming
\* profile's created_at is; so does the update_finally_record it delegates to.
C2_UpsertKeepsKeyAndCreation ==
    [][\A user_data \in Profiles, f1 \in BOOLEAN, f2 \in BOOLEAN :
          (/\ s_last'.user = user_data.username
           /\ \/ store_add_or_update_finally_record(user_data, f1, f2)
              \/ store_update_finally_record(user_data.username, user_data, f1))
          => \A i \in DOMAIN finally_table :
                 finally_table[i].username = user_data.username
                 => \E j \in DOMAIN finally_table' :
                        /\ finally_table'[j].id = finally_table[i].id
                        /\ finally_table'[j].username = finally_table[i].username
                        /\ finally_table'[j].created_at = finally_table[i].created_at]_vars

\* an upsert went through for an identity whose row was created at an earlier second
C2_Witness ==
    /\ s_last.op = "add_or_update_finally_record"
    /\ s_last.existed
    /\ ~s_last.raised
    /\ \E i \in DOMAIN finally_table :
           /\ finally_table[i].username = s_last.user
           /\ finally_table[i].created_at < now

\* C3: when stage 2 enriches an identity that already has a row, the single row
\* of that identity afterwards carries the freshly fetched attribute values.
C3_ReEnrichmentOverwrites ==
    [][\A outcome \in AllProfileOutcomes :
          (/\ profile_step(outcome, FALSE)
           /\ FetchedProfile(outcome) # None
           /\ Head(p_data).username \in Usernames(finally_table))
          => LET rows == RowsOf(finally_table', Head(p_data).username)
             IN  /\ Len(rows) = 1
                 /\ Carries(rows[1], FetchedProfile(outcome))]_vars

\* C4: stage 2 is idempotent: in a later run, enriching an identity whose row
\* already carries exactly the fetched values (the remote profile is unchanged
\* since the earlier run) leaves the Final Store as it was.
C4_Stage2Idempotent ==
    [][\A outcome \in AllProfileOutcomes :
          (/\ profile_step(outcome, FALSE)
           /\ runs2 >= 2
           /\ FetchedProfile(outcome) # None
           /\ Head(p_data).username \notin Range(attempted)
           /\ \E i \in DOMAIN finally_table :
                  Carries(finally_table[i], FetchedProfile(outcome)))
          => finally_table' = finally_table]_vars

\* C5: a transport failure for one identity does not abort stage 2: the
\* identity is skipped, no exception leaves the loop, the Final Store is not
\* written and the later identities of the snapshot are still to be enriched.
C5_TransportFailureSkips ==
    [][\A outcome \in AllProfileOutcomes, fault \in BOOLEAN :
          (/\ profile_step(outcome, fault)
           /\ graphql_post_request(outcome) = None)
          => /\ p_pc' = "loop"
             /\ p_data' = Tail(p_data)
             /\ finally_table' = finally_table]_vars

\* C6: when the remote API answers with no profile (user is null), stage 2
\* writes nothing to the Final Store, raises no fault and goes on to the next
\* identity of the snapshot.
C6_AbsentProfileSkips ==
    [][\A outcome \in AllProfileOutcomes, fault \in BOOLEAN :
          (/\ profile_step(outcome, fault)
           /\ graphql_post_request(outcome) # None
           /\ FetchedProfile(outcome) = None)
          => /\ finally_table' = finally_table
             /\ finally_seq' = finally_seq
             /\ p_pc' = "loop"
             /\ p_data' = Tail(p_data)
             /\ ~p_last'.raised]_vars

\* an identity was answered with no profile and the next identity is pending
C6_Witness ==
    /\ p_last.op = "profile_info_search"
    /\ ~p_last.raised
    /\ p_last.res = NoneId
    /\ p_pc = "loop"
    /\ p_data # <<>>
    /\ attempted # <<>>

\* C7: within one stage-2 run each identity is fetched at most once.
C7_EachIdentityOnce ==
    \A i, j \in DOMAIN attempted : attempted[i] = attempted[j] => i = j

\* C8: a completed stage-2 run has attempted exactly the identities that were
\* in the Staging Store when the run read its snapshot.
C8_SnapshotAttemptedExactly ==
    p_pc = "done" => Range(attempted) = staged_at_start

\* C9: every successful add_primary_record appends exactly one row, with a
\* fresh generated id and the record's identity, origin and payload, whether or
\* not an equal record is already staged; the rows already there stay.
C9_AppendAddsOneFreshRow ==
    [][\A data \in PrimaryInputs :
          store_add_primary_record(data, FALSE)
          => /\ Len(primary_table') = Len(primary_table) + 1
             /\ SubSeq(primary_table', 1, Len(primary_table)) = primary_table
             /\ LET row == primary_table'[Len(primary_table')]
                IN  /\ row.id = s_last'.res
                    /\ row.id \notin Ids(primary_table)
                    /\ row.id > primary_seq
                    /\ row.username = data.username
                    /\ row.source = data.source
                    /\ loads(row.json_info) = data.json_info]_vars

\* the same record was appended twice and is staged in two rows
C9_Witness ==
    /\ s_last.op = "add_primary_record"
    /\ s_last.existed
    /\ ~s_last.raised
    /\ \E i, j \in DOMAIN primary_table :
           /\ i # j
           /\ primary_table[i].username = primary_table[j].username
           /\ primary_table[i].source = primary_table[j].source
           /\ primary_table[i].json_info = primary_table[j].json_info

\* a staging row is still there, with the same id, identity, origin, payload
\* and creation time
Persists(row, table) == \E j \in DOMAIN table : table[j] = row

ReportedRecords(nodes) ==
    LET WithReporter(node) == "reporter" \in DOMAIN node /\ node.reporter # None
        kept == SelectSeq(nodes, WithReporter)
    IN  [i \in DOMAIN kept |->
            PrimaryData(kept[i].reporter.username, kept[i].typename, kept[i])]

\* C11: for every page of activity nodes process_nodes does not fail and
\* returns, in input order, one record (identity, origin, whole node) for each
\* node with reporter information and none for a node whose reporter is absent
\* or null.
C11_ProcessNodesFiltersInOrder ==
    [][\A outcome \in SearchOutcomes :
          (/\ hacktivity_request(outcome)
           /\ graphql_post_request(outcome) # None)
          => /\ ~h_last'.raised
             /\ h_data' = ReportedRecords(outcome.json.data.search.nodes)]_vars

\* the rows the current run of hacktivity_search has added to the Staging Store
RowsOfRun ==
    LET Mine(row) == row.id > h_run.base IN SelectSeq(primary_table, Mine)

\* a staging row holds a record: identity, origin tag and the node as payload
Stages(row, data) ==
    /\ row.username = data.username
    /\ row.source = data.source
    /\ loads(row.json_info) = data.json_info

\* C12: when add_primary_record fails on the k-th record of a batch, the fault
\* leaves the stage (the run is aborted), the first k-1 records of the batch
\* are the rows the run has added, and as long as the run is the last one no
\* further row is added: the k-th and the later records stay unwritten.
C12_MidBatchFaultKeepsEarlierRows ==
    (h_last.op = "add_primary_record" /\ h_last.raised)
    => LET k == Len(h_run.batch) - Len(h_data) + 1
       IN  /\ h_pc = "aborted"
           /\ k \in 1..Len(h_run.batch)
           /\ Len(RowsOfRun) = k - 1
           /\ \A i \in 1..(k - 1) : Stages(RowsOfRun[i], h_run.batch[i])
           /\ \A i \in DOMAIN h_data : h_data[i] = h_run.batch[k - 1 + i]

\* the second record of a batch failed after the first was committed
C12_Witness ==
    /\ h_last.op = "add_primary_record"
    /\ h_last.raised
    /\ h_pc = "aborted"
    /\ Len(RowsOfRun) >= 1
    /\ Len(h_data) >= 1

\* C13: when the transport call of stage 1 fails (no response), the run is
\* aborted by a fault at the request, before the store is opened, and it adds
\* no row to the Staging Store: whatever was staged before is all there is.
C13_BulkTransportFailureAborts ==
    (runs1 > 0 /\ h_run.response = None)
    => /\ h_pc = "aborted"
       /\ h_last.op = "hacktivity_search"
       /\ h_last.raised
       /\ h_data = <<>>
       /\ RowsOfRun = <<>>
       /\ primary_seq = h_run.base

\* the transport call failed on a Staging Store an earlier run had filled
C13_Witness ==
    /\ runs1 > 0
    /\ h_run.response = None
    /\ h_pc = "aborted"
    /\ primary_table # <<>>

\* C14: a storage fault inside a store operation reaches the caller of that
\* operation as a fault: every call on the Final Store during which the
\* storage fails ends with an exception, never with a normal result.
C14_StorageFaultsPropagate ==
    [][(\/ \E user_data \in Profiles : store_add_finally_record(user_data, TRUE)
        \/ \E user_data \in Profiles, rf \in BOOLEAN, wf \in BOOLEAN :
               (rf \/ wf) /\ store_add_or_update_finally_record(user_data, rf, wf)
        \/ \E username \in Users, user_data \in Profiles :
               store_update_finally_record(username, user_data, TRUE)
        \/ \E username \in Users : store_delete_finally_record(username, TRUE)
        \/ \E record_id \in 1..MaxFinal : store_delete_finally_by_id(record_id, TRUE)
        \/ store_clear_all_data(TRUE))
       => s_last'.raised]_vars

\* text contains the substring, character for character
Contains(text, substring) ==
    \E i \in 1..(Len(text) + 1) :
        /\ i + Len(substring) - 1 <= Len(text)
        /\ SubSeq(text, i, i + Len(substring) - 1) = substring

\* C15: search_finally_records with a field name outside the allow-list does
\* not fail and returns what the username search with the same query returns:
\* one record for every Final Store row whose username contains the query.
C15_InvalidFieldFallsBackToUsername ==
    [][\A search_query \in Queries, field \in Fields \ valid_fields :
          store_search_finally_records(search_query, field, FALSE)
          => LET Hit(row) == Contains(Chars(row.username), search_query)
             IN  /\ ~s_last'.raised
                 /\ s_last'.out = search_finally_records(finally_table, search_query,
                                                         "username", FALSE)
                 /\ Len(s_last'.out) = Len(SelectSeq(finally_table, Hit))]_vars

\* a badges or public_reviews container with a list of edges in it
Usable(container) ==
    /\ container.kind = "dict"
    /\ "edges" \in DOMAIN container
    /\ container.edges.kind = "list"

\* C16: for a raw profile whose badges or public_reviews container is missing,
\* null, not a mapping, or without a usable edges list, from_user_data gives
\* the empty list for that attribute, and the insert of the record succeeds.
C16_UnusableContainersDefaultToEmpty ==
    [][\A user_data \in RawProfiles :
          store_add_finally_record(user_data, FALSE)
          => LET data == from_user_data(user_data)
                 NoList(key) == key \notin DOMAIN user_data \/ ~Usable(user_data[key])
             IN  /\ NoList("badges") => data.badges_json = List(<<>>)
                 /\ NoList("public_reviews") => data.public_reviews_json = List(<<>>)
                 /\ ~s_last'.raised
                 /\ Len(finally_table') = Len(finally_table) + 1]_vars

\* a record read back carries the values of a Final Store row, the serialized
\* documents decoded
ReadsBack(out, row) ==
    /\ out # None
    /\ out.id = row.id
    /\ out.username = row.username
    /\ out.name = row.name
    /\ out.resolved_report_count = row.resolved_report_count
    /\ out.profile_created_at = row.profile_created_at
    /\ out.badges_json = loads(row.badges_json)
    /\ out.public_reviews_json = loads(row.public_reviews_json)

\* C17: once a profile of an identity is written, get_finally_by_username of
\* that identity returns a record of the identity with the values of its row,
\* and get_finally_by_id with the key of a row returns the record of that row.
C17_WriteReadRoundTrip ==
    [][/\ \A username \in Users :
              (/\ store_get_finally_by_username(username, FALSE)
               /\ username \in Usernames(finally_table))
              => \E i \in DOMAIN finally_table :
                     /\ finally_table[i].username = username
                     /\ ReadsBack(s_last'.out, finally_table[i])
       /\ \A record_id \in 1..MaxFinal :
              (/\ store_get_finally_by_id(record_id, FALSE)
               /\ record_id \in Ids(finally_table))
              => \E i \in DOMAIN finally_table :
                     /\ finally_table[i].id = record_id
                     /\ ReadsBack(s_last'.out, finally_table[i])]_vars

\* the page the current run of hacktivity_search was answered with
PageOfRun ==
    IF h_run.response = None THEN <<>> ELSE h_run.response.data.search.nodes

\* the run has written its whole batch, and every node of its page carries a
\* reporter
IngestedReportedPage ==
    /\ h_pc = "done"
    /\ PageOfRun # <<>>
    /\ \A i \in DOMAIN PageOfRun :
           /\ "reporter" \in DOMAIN PageOfRun[i]
           /\ PageOfRun[i].reporter # None

\* the record read back carries the node: its identity, origin tag and payload
Returns(out, node) ==
    /\ out # None
    /\ out.username = node.reporter.username
    /\ out.source = node.typename
    /\ out.json_info = node

\* the run has added one row per node of its page, in page order, each with
\* the node's identity, origin tag and payload
OneRowPerNode ==
    /\ Len(RowsOfRun) = Len(PageOfRun)
    /\ \A i \in DOMAIN PageOfRun :
           /\ RowsOfRun[i].username = PageOfRun[i].reporter.username
           /\ RowsOfRun[i].source = PageOfRun[i].typename
           /\ loads(RowsOfRun[i].json_info) = PageOfRun[i]

\* C18 (as stated): after a successful ingest of a page whose nodes all carry
\* a reporter the Staging Store has gained exactly one row per node, and for
\* every node of the page get_primary_by_username of the node's identity
\* returns a record with that identity, the node's origin tag and the node as
\* payload.
C18_IngestedNodesRetrievable ==
    [][\A u \in Users :
          (IngestedReportedPage /\ store_get_primary_by_username(u, FALSE))
          => /\ OneRowPerNode
             /\ \A i \in DOMAIN PageOfRun :
                    PageOfRun[i].reporter.username = u
                    => Returns(s_last'.out, PageOfRun[i])]_vars

\* C18 (amended): after such an ingest the Staging Store has gained exactly one
\* row per node, in page order, each with the node's identity, origin tag and
\* payload; for every identity u of the page get_primary_by_username(u) returns
\* the oldest row of u: a record with identity u that carries the first node
\* of u in the page when the store held no row of u before the ingest, and the
\* origin tag and payload of the earlier row otherwise.
C18_OldestRowRetrievable ==
    /\ [](IngestedReportedPage => OneRowPerNode)
    /\ [][\A u \in Users :
            (/\ IngestedReportedPage
             /\ store_get_primary_by_username(u, FALSE)
             /\ \E i \in DOMAIN PageOfRun : PageOfRun[i].reporter.username = u)
            => LET out == s_last'.out
                   rows == RowsOf(primary_table, u)
                   first == CHOOSE i \in DOMAIN PageOfRun :
                                /\ PageOfRun[i].reporter.username = u
                                /\ \A j \in 1..(i - 1) :
                                       PageOfRun[j].reporter.username # u
               IN  /\ out # None
                   /\ out.username = u
                   /\ out.id = rows[1].id
                   /\ out.source = rows[1].source
                   /\ out.json_info = loads(rows[1].json_info)
                   /\ (rows[1].id > h_run.base) => Returns(out, PageOfRun[first])
                   /\ (rows[1].id <= h_run.base) => out.id \notin Ids(RowsOfRun)]_vars

\* the page with alice and bob was ingested into an empty store and bob was
\* looked up
C18_Witness ==
    /\ IngestedReportedPage
    /\ Len(RowsOfRun) = 2
    /\ RowsOfRun[1].username = "alice"
    /\ RowsOfRun[2].username = "bob"
    /\ s_last.op = "get_primary_by_username"
    /\ s_last.user = "bob"
    /\ Returns(s_last.out, PageOfRun[2])

\* C19: every successful add_or_update_finally_record returns the key of a row
\* that holds the profile's identity after the call, and when the identity was
\* already stored it returns the key that identity got at its first insertion.
C19_UpsertReturnsStableKey ==
    [][\A user_data \in Profiles :
          (/\ s_last'.op = "add_or_update_finally_record"
           /\ s_last'.user = user_data.username
           /\ ~s_last'.raised
           /\ store_add_or_update_finally_record(user_data, FALSE, FALSE))
          => /\ \E i \in DOMAIN finally_table' :
                    /\ finally_table'[i].id = s_last'.res
                    /\ finally_table'[i].username = user_data.username
             /\ RowsOf(finally_table, user_data.username) # <<>>
                => s_last'.res = RowsOf(finally_table, user_data.username)[1].id]_vars

\* C20: when a caller's add_or_update_finally_record writes after another call
\* for the same identity has written since the caller's lookup, and the
\* storage is sound, the Final Store still ends with exactly one row for the
\* identity, and that row keeps the key and created_at of the first row.
C20_ConcurrentUpsertKeepsOneRow ==
    [][\A c \in Callers :
          (/\ upserts[c].pc = "write"
           /\ \E i \in DOMAIN finally_table :
                  /\ finally_table[i].id > upserts[c].seq
                  /\ finally_table[i].username = upserts[c].data.username
           /\ upsert_write(c, FALSE)
           /\ ~s_last'.raised)
          => LET u == upserts[c].data.username
                 before == RowsOf(finally_table, u)
                 after == RowsOf(finally_table', u)
             IN  /\ Len(after) = 1
                 /\ after[1].id = before[1].id
                 /\ after[1].created_at = before[1].created_at]_vars

\* C21: no stage that has ended, completed or aborted, holds an open store
\* connection: whenever a stage is not running its connection flag is down.
C21_NoTerminalStateHoldsConnection ==
    /\ (h_pc \in {"idle", "done", "aborted"}) => ~connection.stage1
    /\ (p_pc \in {"idle", "done", "aborted"}) => ~connection.stage2

\* the created_at of a raw profile is not a timestamp datetime.fromisoformat
\* accepts: it is missing, null, empty, not a timestamp, or names a month and
\* a day that do not exist
NoTimestamp(user_data) ==
    \/ "created_at" \notin DOMAIN user_data
    \/ user_data.created_at \in {NULL, "", "not-a-date", "2020-13-45T00:00:00Z"}

\* C22: writing a profile whose created_at cannot be parsed, is empty or is
\* missing succeeds when the storage is sound: add_finally_record does not
\* raise, it appends one row for the profile and returns its key, and the
\* row's profile_created_at is absent (NULL).
C22_UnparseableTimestampStoredAbsent ==
    [][\A user_data \in StampedProfiles :
          (/\ s_last'.user = user_data.username
           /\ NoTimestamp(user_data)
           /\ store_add_finally_record(user_data, FALSE))
          => LET row == finally_table'[Len(finally_table')]
             IN  /\ ~s_last'.raised
                 /\ Len(finally_table') = Len(finally_table) + 1
                 /\ row.username = user_data.username
                 /\ row.id = s_last'.res
                 /\ row.profile_created_at = NULL]_vars

\* add_finally_record has returned the key of a row it wrote without a
\* profile_created_at, after a row with a parsed one
C22_Witness ==
    /\ s_last.op = "add_finally_record"
    /\ ~s_last.raised
    /\ Len(finally_table) = 2
    /\ finally_table[1].profile_created_at = "2020-01-01 10:30:00"
    /\ finally_table[2].id = s_last.res
    /\ finally_table[2].profile_created_at = NULL

\* C23: stage 2 takes the staging rows most recently appended first: in the
\* list get_all_primary_records hands to the loop of profile_info_search a row
\* appended later (higher id) stands before every row of another identity
\* appended earlier, also when both carry the same created_at.
C23_LaterAppendedEnrichedFirst ==
    [][profile_snapshot(FALSE)
       => \A i, j \in DOMAIN p_data' :
              (i < j /\ p_data'[i].username # p_data'[j].username)
              => p_data'[i].id > p_data'[j].id]_vars

\* C24: in main, stage 2 is started only when stage 1 has completed and has
\* written its whole batch to the Staging Store; when stage 1 has aborted,
\* stage 2 has not been started and the Final Store is as the run found it.
C24_Stage2OnlyAfterStage1Completed ==
    /\ (p_pc # "idle")
       => /\ h_pc = "done"
          /\ h_data = <<>>
          /\ Len(RowsOfRun) = Len(h_run.batch)
          /\ \A i \in DOMAIN h_run.batch : Stages(RowsOfRun[i], h_run.batch[i])
    /\ (h_pc = "aborted")
       => /\ p_pc = "idle"
          /\ runs2 = 0
          /\ p_last.op = "init"
          /\ finally_table = <<>>
          /\ finally_seq = 0

\* stage 2 has completed after a stage 1 that staged a row, and has written a
\* profile
C24_Witness ==
    /\ h_pc = "done"
    /\ p_pc = "done"
    /\ Len(RowsOfRun) >= 1
    /\ finally_table # <<>>

\* main has ended: stage 1 aborted, or stage 1 completed and stage 2 completed
\* or aborted
MainTerminal ==
    \/ h_pc = "aborted"
    \/ h_pc = "done" /\ p_pc \in {"done", "aborted"}

\* C25: when every awaited call returns, a run of main reaches a terminal
\* state, each stage completed or aborted; and every transport request of
\* stage 2 is for the head of what is left of its snapshot and either takes
\* that element off or aborts the stage, so that the requests of a run never
\* outnumber the rows of its snapshot.
C25_RunTerminates ==
    /\ <>MainTerminal
    /\ [][attempted' # attempted /\ p_pc = "loop"
          => /\ p_data # <<>>
             /\ attempted' = Append(attempted, Head(p_data).username)
             /\ \/ p_pc' = "aborted"
                \/ p_pc' = "loop" /\ p_data' = Tail(p_data)]_vars
    /\ [](Len(attempted) <= Len(primary_table))

\* both stages completed, stage 2 after two requests
C25_Witness ==
    /\ h_pc = "done"
    /\ p_pc = "done"
    /\ Len(attempted) = 2

====
